---- MODULE Spec2Model ----
(***************************************************************************)
(* Spam-Rectifier: multinomial Naive Bayes classifier core.                *)
(*                                                                         *)
(* A text is modelled as the sequence of TOKEN_RE matches of its           *)
(* normalized form (the texts of the model contain no e-mail address, URL  *)
(* or number, so _redact leaves them as they are).  A Python dict is an    *)
(* ordered sequence of [k, v] entries (insertion order, as in CPython).    *)
(* A floating-point quantity exp(x) is modelled by the exact rational      *)
(* <<numerator, denominator>> it approximates; logarithms are compared     *)
(* through those rationals.                                                *)
(***************************************************************************)
EXTENDS Integers, Sequences, FiniteSets, TLC

VARIABLES
    texts,          \* train(): the texts argument
    labels,         \* train(): the labels argument
    config,         \* train(): the config argument
    pc,             \* position of the running program
    i,              \* train(): number of (features, label) pairs consumed
    label_counts,   \* train(): local dict
    token_counts,   \* train(): local dict
    total_tokens,   \* train(): local dict
    vocabulary,     \* train(): local set
    model,          \* the NaiveBayesModel object (NoModel before it exists)
    err,            \* the exception the last operation raised ("" for none)
    result,         \* what the last call returned
    file,           \* what is stored at the model path
    payload,        \* save(): the document being written (NoDoc when none)
    saved,          \* history: the documents whose save ran to its end
    callers         \* the calls in progress on the shared model

vars == <<texts, labels, config, pc, i, label_counts, token_counts,
          total_tokens, vocabulary, model, err, result, file, payload, saved,
          callers>>

trainVars == <<texts, labels, config, i, label_counts, token_counts,
               total_tokens, vocabulary>>

diskVars == <<file, payload, saved>>

-----------------------------------------------------------------------------
(* Bounds and input universes *)

MaxDocs == 3

Labels == {"ham", "spam"}

\* sorted() over the label universe
SortedLabels == <<"ham", "spam">>

TrainTexts == { <<"a">>, <<"free">>, <<"win", "free">> }

QueryTexts == { <<>>, <<"a">>, <<"free">>, <<"meet", "free">>, <<"free", "free">> }

Timestamps == {"T1", "T2"}

\* sorted() over every token the texts above can produce
SortedTokens ==
    << "a", "a_a", "a_free", "a_meet", "a_win",
       "free", "free_a", "free_free", "free_meet", "free_win",
       "meet", "meet_a", "meet_free", "meet_meet", "meet_win",
       "win", "win_a", "win_free", "win_meet", "win_win" >>

FeatureConfig(ub, mtl, re, ru, rn) ==
    [use_bigrams |-> ub, min_token_length |-> mtl, redact_emails |-> re,
     redact_urls |-> ru, redact_numbers |-> rn]

DefaultConfig == FeatureConfig(TRUE, 2, TRUE, TRUE, FALSE)

Configs == { DefaultConfig,
             FeatureConfig(FALSE, 2, TRUE, TRUE, FALSE),
             FeatureConfig(TRUE, 1, TRUE, TRUE, FALSE) }

SeqsUpTo(S, n) == UNION { [1..k -> S] : k \in 0..n }

NoModel == [none |-> TRUE]

NoFile == [exists |-> FALSE]

NoDoc == [nodoc |-> TRUE]

-----------------------------------------------------------------------------
(* Python dict (insertion ordered) and Counter *)

Keys(d) == { d[j].k : j \in 1..Len(d) }

Has(d, key) == key \in Keys(d)

Get(d, key, default) ==
    IF Has(d, key)
    THEN d[CHOOSE j \in 1..Len(d) : d[j].k = key].v
    ELSE default

Put(d, key, val) ==
    IF Has(d, key)
    THEN [j \in 1..Len(d) |-> IF d[j].k = key THEN [k |-> key, v |-> val] ELSE d[j]]
    ELSE Append(d, [k |-> key, v |-> val])

RECURSIVE SumValues(_)
SumValues(d) == IF d = <<>> THEN 0 ELSE Head(d).v + SumValues(Tail(d))

\* dict == dict in Python: same keys, same values, whatever the order
DictEq(a, b) ==
    /\ Keys(a) = Keys(b)
    /\ \A key \in Keys(a) : Get(a, key, 0) = Get(b, key, 0)

RECURSIVE Counter(_)
Counter(tokens) ==
    IF tokens = <<>> THEN <<>>
    ELSE LET n == Len(tokens)
             c == Counter(SubSeq(tokens, 1, n - 1))
         IN Put(c, tokens[n], Get(c, tokens[n], 0) + 1)

\* how a call ends: an exception raised, or a value returned
Raise(e) == [ok |-> FALSE, error |-> e]

Return(v) == [ok |-> TRUE, value |-> v]

-----------------------------------------------------------------------------
(* features.py *)

\* the indices (from 1) of range(n): none when n <= 0
PyRange(n) == 1..(IF n < 0 THEN 0 ELSE n)

\* the bigrams joined from the words as found, before the length filter
tokenizePairsUnfiltered(text, cfg) ==
    LET tokens == SelectSeq(text, LAMBDA w : Len(w) >= cfg.min_token_length)
        bigrams == [j \in PyRange(Len(text) - 1) |->
                        text[j] \o "_" \o text[j + 1]]
    IN IF ~cfg.use_bigrams THEN tokens ELSE tokens \o bigrams

tokenize(text, cfg) ==
    LET tokens == SelectSeq(text, LAMBDA w : Len(w) >= cfg.min_token_length)
        bigrams == [j \in PyRange(Len(tokens) - 1) |->
                        tokens[j] \o "_" \o tokens[j + 1]]
    IN IF ~cfg.use_bigrams THEN tokens ELSE tokens \o bigrams

featurize(ts, cfg) == [j \in 1..Len(ts) |-> Counter(tokenize(ts[j], cfg))]

\* tokenize called on one text under configs that differ in use_bigrams only

MaxWords == 3

Words == {"a", "win", "free"}

MinTokenLengths == {1, 2, 4}

TokenizeInit ==
    /\ texts \in { <<text>> : text \in SeqsUpTo(Words, MaxWords) }
    /\ labels = <<>>
    /\ config \in { FeatureConfig(TRUE, mtl, TRUE, TRUE, FALSE) : mtl \in MinTokenLengths }
    /\ pc = "tokenizing"
    /\ i = 0
    /\ label_counts = <<>>
    /\ token_counts = <<>>
    /\ total_tokens = <<>>
    /\ vocabulary = {}
    /\ model = NoModel
    /\ err = ""
    /\ result = [op |-> "tokenize", out |-> <<>>]
    /\ file = NoFile
    /\ payload = NoDoc
    /\ saved = {}
    /\ callers = <<>>

\* tokenize(text, config) with use_bigrams set to ub; result.out keeps what
\* each call returned, under the use_bigrams it was called with
CallTokenize(ub) ==
    /\ pc = "tokenizing"
    /\ ~Has(result.out, ub)
    /\ result' = [op |-> "tokenize",
                  out |-> Put(result.out, ub,
                              tokenize(texts[1], [config EXCEPT !.use_bigrams = ub]))]
    /\ UNCHANGED <<trainVars, pc, model, err, diskVars, callers>>

\* the caller drops what the calls returned
ForgetTokens ==
    /\ pc = "tokenizing"
    /\ result.out # <<>>
    /\ result' = [op |-> "tokenize", out |-> <<>>]
    /\ UNCHANGED <<trainVars, pc, model, err, diskVars, callers>>

TokenizeNext == CallTokenize(TRUE) \/ CallTokenize(FALSE) \/ ForgetTokens

SpecTokenize == TokenizeInit /\ [][TokenizeNext]_vars

-----------------------------------------------------------------------------
(* model.py: NaiveBayesModel.train *)

\* zip(..., strict=True): what asking for the next pair gives after j pairs
ZipNextLoose(j, n1, n2) ==
    IF j < n1 /\ j < n2 THEN "item" ELSE "stop"

ZipNext(j, n1, n2) ==
    IF j < n1
    THEN IF j < n2 THEN "item" ELSE "shorter"
    ELSE IF j < n2 THEN "longer" ELSE "stop"

ZipError(outcome) ==
    IF outcome = "shorter"
    THEN "ValueError: zip() argument 2 is shorter than argument 1"
    ELSE "ValueError: zip() argument 2 is longer than argument 1"

RECURSIVE AddFeaturesOverwrite(_, _)
\* token_bucket[token] = count, without what the bucket already holds
AddFeaturesOverwrite(bucket, features) ==
    IF features = <<>> THEN bucket
    ELSE LET f == Head(features)
         IN AddFeaturesOverwrite(Put(bucket, f.k, f.v), Tail(features))

RECURSIVE AddFeatures(_, _)
\* for token, count in features.items(): token_bucket[token] = ... + count
AddFeatures(bucket, features) ==
    IF features = <<>> THEN bucket
    ELSE LET f == Head(features)
         IN AddFeatures(Put(bucket, f.k, Get(bucket, f.k, 0) + f.v), Tail(features))

LabelTotalLastDoc(bucket, features) == SumValues(features)

\* total_tokens[label] = sum(token_bucket.values())
LabelTotal(bucket, features) == SumValues(bucket)

\* the body of the loop of train for one (features, label) pair; acc holds
\* the four local collections
TrainDoc(acc, features, label) ==
    LET bucket == AddFeatures(Get(acc.token_counts, label, <<>>), features)
    IN [label_counts |-> Put(acc.label_counts, label,
                             Get(acc.label_counts, label, 0) + 1),
        token_counts |-> Put(acc.token_counts, label, bucket),
        total_tokens |-> Put(acc.total_tokens, label, LabelTotal(bucket, features)),
        vocabulary |-> acc.vocabulary \cup Keys(features)]

EmptyAcc ==
    [label_counts |-> <<>>, token_counts |-> <<>>, total_tokens |-> <<>>,
     vocabulary |-> {}]

\* cls(label_counts=..., ..., trained_at=now, dataset_size=sum(label_counts.values()))
MakeModel(acc, cfg, now) ==
    [label_counts |-> acc.label_counts, token_counts |-> acc.token_counts,
     total_tokens |-> acc.total_tokens, vocabulary |-> acc.vocabulary,
     config |-> cfg, trained_at |-> now,
     dataset_size |-> SumValues(acc.label_counts)]

RECURSIVE TrainLoop(_, _, _, _, _)
TrainLoop(acc, j, ts, ls, cfg) ==
    LET nxt == ZipNext(j, Len(ts), Len(ls))
    IN IF nxt = "item"
       THEN TrainLoop(TrainDoc(acc, featurize(ts, cfg)[j + 1], ls[j + 1]),
                      j + 1, ts, ls, cfg)
       ELSE IF nxt = "stop" THEN Return(acc) ELSE Raise(ZipError(nxt))

\* train(texts, labels, config) run to its end at time now
train(ts, ls, cfg, now) ==
    LET r == TrainLoop(EmptyAcc, 0, ts, ls, cfg)
    IN IF r.ok THEN Return(MakeModel(r.value, cfg, now)) ELSE r

TrainInit ==
    /\ texts \in SeqsUpTo(TrainTexts, MaxDocs)
    /\ labels \in SeqsUpTo(Labels, MaxDocs)
    /\ config \in Configs
    /\ pc = "train"
    /\ i = 0
    /\ label_counts = <<>>
    /\ token_counts = <<>>
    /\ total_tokens = <<>>
    /\ vocabulary = {}
    /\ model = NoModel
    /\ err = ""
    /\ result = [op |-> "none"]
    /\ file = NoFile
    /\ payload = NoDoc
    /\ saved = {}
    /\ callers = <<>>

\* the four local collections of train
Acc ==
    [label_counts |-> label_counts, token_counts |-> token_counts,
     total_tokens |-> total_tokens, vocabulary |-> vocabulary]

\* the collections a call of train would start from if they outlived the
\* previous call
StaleLocals(left) == left

\* label_counts, token_counts, total_tokens and vocabulary as train creates
\* them on entry, whatever an earlier call left behind
FreshLocals(left) == EmptyAcc

\* train is called again on the same texts, labels and config; result keeps
\* the model the first call returned
TrainAgain ==
    /\ pc = "ready"
    /\ result.op = "none"
    /\ result' = [op |-> "trained", out |-> model]
    /\ pc' = "train"
    /\ i' = 0
    /\ LET acc == FreshLocals(Acc)
       IN /\ label_counts' = acc.label_counts
          /\ token_counts' = acc.token_counts
          /\ total_tokens' = acc.total_tokens
          /\ vocabulary' = acc.vocabulary
    /\ UNCHANGED <<texts, labels, config, model, err, diskVars, callers>>

\* one iteration of the loop over zip(featurize(texts, config), labels)
TrainStep ==
    /\ pc = "train"
    /\ ZipNext(i, Len(texts), Len(labels)) = "item"
    /\ LET acc == TrainDoc(Acc, featurize(texts, config)[i + 1], labels[i + 1])
       IN /\ label_counts' = acc.label_counts
          /\ token_counts' = acc.token_counts
          /\ vocabulary' = acc.vocabulary
          /\ total_tokens' = acc.total_tokens
    /\ i' = i + 1
    /\ UNCHANGED <<texts, labels, config, pc, model, err, result, diskVars, callers>>

\* zip raises: the sequences have different lengths
TrainRaise ==
    /\ pc = "train"
    /\ ZipNext(i, Len(texts), Len(labels)) \in {"shorter", "longer"}
    /\ pc' = "failed"
    /\ err' = ZipError(ZipNext(i, Len(texts), Len(labels)))
    /\ UNCHANGED <<trainVars, model, result, diskVars, callers>>

\* the loop ends and train returns cls(...)
TrainReturn ==
    /\ pc = "train"
    /\ ZipNext(i, Len(texts), Len(labels)) = "stop"
    /\ \E ts \in Timestamps :
          model' = MakeModel(Acc, config, ts)
    /\ pc' = "ready"
    /\ UNCHANGED <<trainVars, err, result, diskVars, callers>>

-----------------------------------------------------------------------------
(* Exact arithmetic for the floating-point quantities.  A probability or    *)
(* exp(log-score) is the rational <<n, d>> with d > 0.                      *)

RECURSIVE Pow(_, _)
Pow(b, e) == IF e = 0 THEN 1 ELSE b * Pow(b, e - 1)

RECURSIVE GCD(_, _)
GCD(a, b) == IF b = 0 THEN a ELSE GCD(b, a % b)

\* n / d in lowest terms (d > 0, n >= 0)
Reduced(n, d) == LET g == GCD(n, d) IN <<n \div g, d \div g>>

RatMul(a, b) == Reduced(a[1] * b[1], a[2] * b[2])

RECURSIVE FracLess(_, _, _, _)
\* a / b < c / d for a, c >= 0 and b, d > 0, by comparing the integer parts
\* and then the reciprocals of the fractional parts (no product is formed)
FracLess(a, b, c, d) ==
    IF a \div b # c \div d THEN a \div b < c \div d
    ELSE IF c % d = 0 THEN FALSE
    ELSE IF a % b = 0 THEN TRUE
    ELSE FracLess(d, c % d, b, a % b)

RatLess(a, b) == FracLess(a[1], a[2], b[1], b[2])

RatEq(a, b) == ~RatLess(a, b) /\ ~RatLess(b, a)

RatOne == <<1, 1>>

-----------------------------------------------------------------------------
(* model.py: inference *)

\* the labels property: sorted(self.label_counts.keys())
ModelLabels(m) == SelectSeq(SortedLabels, LAMBDA l : Has(m.label_counts, l))

\* max(len(self.vocabulary), 1)
VocabSize(m) == IF Cardinality(m.vocabulary) > 1 THEN Cardinality(m.vocabulary) ELSE 1

\* exp of count * math.log((token_count + 1) / (label_total + vocab_size))
Contribution(m, label, token, count) ==
    LET token_count == Get(Get(m.token_counts, label, <<>>), token, 0)
        label_total == Get(m.total_tokens, label, 0)
    IN <<Pow(token_count + 1, count), Pow(label_total + VocabSize(m), count)>>

RECURSIVE LogLikelihood(_, _, _)
\* exp of the sum of the contributions of features.items()
LogLikelihood(m, label, features) ==
    IF features = <<>> THEN RatOne
    ELSE RatMul(Contribution(m, label, Head(features).k, Head(features).v),
                LogLikelihood(m, label, Tail(features)))

\* exp of math.log(self.label_counts[label] / total_docs); every count of a
\* trained model is at least 1
Prior(m, label) == <<Get(m.label_counts, label, 0), SumValues(m.label_counts)>>

\* log_probs[label] = prior + log_likelihood, for label in self.labels
LogProbs(m, features) ==
    LET ls == ModelLabels(m)
    IN [j \in 1..Len(ls) |->
          [k |-> ls[j], v |-> RatMul(Prior(m, ls[j]), LogLikelihood(m, ls[j], features))]]

RECURSIVE DenLCM(_)
\* the least common denominator of the scores
DenLCM(d) ==
    IF d = <<>> THEN 1
    ELSE LET rest == DenLCM(Tail(d))
         IN (Head(d).v[2] \div GCD(Head(d).v[2], rest)) * rest

\* the scores over a common denominator, each divided by the largest
NormalizeUnscaled(log_probs) ==
    LET den == DenLCM(log_probs)
        w == [j \in 1..Len(log_probs) |->
                 [k |-> log_probs[j].k,
                  v |-> log_probs[j].v[1] * (den \div log_probs[j].v[2])]]
        largest == CHOOSE x \in { w[j].v : j \in 1..Len(w) } :
                       \A j \in 1..Len(w) : w[j].v <= x
    IN [j \in 1..Len(w) |-> [k |-> w[j].k, v |-> Reduced(w[j].v, largest)]]

\* exp(score - max_log) / total: the scores over a common denominator,
\* each divided by their sum
Normalize(log_probs) ==
    LET den == DenLCM(log_probs)
        w == [j \in 1..Len(log_probs) |->
                 [k |-> log_probs[j].k,
                  v |-> log_probs[j].v[1] * (den \div log_probs[j].v[2])]]
        total == SumValues(w)
    IN [j \in 1..Len(w) |-> [k |-> w[j].k, v |-> Reduced(w[j].v, total)]]

MaxEmptyError == "ValueError: max() arg is an empty sequence"

predict_proba(m, text) ==
    LET features == featurize(<<text>>, m.config)[1]
        log_probs == LogProbs(m, features)
    IN IF log_probs = <<>> THEN Raise(MaxEmptyError)
       ELSE Return(Normalize(log_probs))

RECURSIVE PyMaxLastFrom(_, _, _)
PyMaxLastFrom(d, j, best) ==
    IF j > Len(d) THEN d[best].k
    ELSE PyMaxLastFrom(d, j + 1, IF ~RatLess(d[j].v, d[best].v) THEN j ELSE best)

PyMaxLast(d) == PyMaxLastFrom(d, 2, 1)

RECURSIVE PyMaxFrom(_, _, _)
PyMaxFrom(d, j, best) ==
    IF j > Len(d) THEN d[best].k
    ELSE PyMaxFrom(d, j + 1, IF RatLess(d[best].v, d[j].v) THEN j ELSE best)

\* max(d, key=d.get) over a non-empty dict: the first key whose value no
\* other exceeds
PyMax(d) == PyMaxFrom(d, 2, 1)

predict(m, text) ==
    LET probabilities == predict_proba(m, text)
    IN IF ~probabilities.ok THEN probabilities
       ELSE Return(PyMax(probabilities.value))

RECURSIVE InsertDesc(_, _)
\* x placed after every entry whose value is at least its own
InsertDesc(sorted, x) ==
    IF sorted = <<>> THEN <<x>>
    ELSE IF RatLess(Head(sorted).v, x.v) THEN <<x>> \o sorted
    ELSE <<Head(sorted)>> \o InsertDesc(Tail(sorted), x)

RECURSIVE InsertAsc(_, _)
InsertAsc(sorted, x) ==
    IF sorted = <<>> THEN <<x>>
    ELSE IF RatLess(x.v, Head(sorted).v) THEN <<x>> \o sorted
    ELSE <<Head(sorted)>> \o InsertAsc(Tail(sorted), x)

RECURSIVE SortedAsc(_)
\* the sort without reverse=True
SortedAsc(items) ==
    IF items = <<>> THEN <<>>
    ELSE InsertAsc(SortedAsc(SubSeq(items, 1, Len(items) - 1)), items[Len(items)])

RECURSIVE SortedDesc(_)
\* sorted(items, key=lambda item: item[1], reverse=True): stable
SortedDesc(items) ==
    IF items = <<>> THEN <<>>
    ELSE InsertDesc(SortedDesc(SubSeq(items, 1, Len(items) - 1)), items[Len(items)])

\* seq[:n] for n >= 0
Take(seq, n) == SubSeq(seq, 1, IF n < Len(seq) THEN n ELSE Len(seq))

\* contribs[token] = contribution, for token, count in features.items()
Contribs(m, label, features) ==
    [j \in 1..Len(features) |->
        [k |-> features[j].k,
         v |-> Contribution(m, label, features[j].k, features[j].v)]]

\* label_scores[label] = label_log, for label in self.labels
LabelScores(m, features) ==
    LET ls == ModelLabels(m)
    IN [j \in 1..Len(ls) |-> [k |-> ls[j], v |-> LogLikelihood(m, ls[j], features)]]

explain(m, text, top_n) ==
    LET features == featurize(<<text>>, m.config)[1]
        label_scores == LabelScores(m, features)
    IN IF label_scores = <<>> THEN Raise(MaxEmptyError)
       ELSE LET prediction == PyMax(label_scores)
                sorted_tokens == SortedDesc(Contribs(m, prediction, features))
                probabilities == predict_proba(m, text)
            IN IF ~probabilities.ok THEN probabilities
               ELSE Return([prediction |-> prediction,
                            probabilities |-> probabilities.value,
                            top_tokens |-> Take(sorted_tokens, top_n)])

top_tokens(m, label, top_n) ==
    IF ~Has(m.total_tokens, label) \/ ~Has(m.token_counts, label)
    THEN Raise("KeyError")
    ELSE LET bucket == Get(m.token_counts, label, <<>>)
             scored == [j \in 1..Len(bucket) |->
                          [k |-> bucket[j].k,
                           v |-> <<bucket[j].v + 1,
                                   Get(m.total_tokens, label, 0) + VocabSize(m)>>]]
         IN Return(Take(SortedDesc(scored), top_n))

TopNs == {0, 1, 8}

CallPredictProba ==
    /\ pc = "ready"
    /\ result.op = "none"
    /\ \E text \in QueryTexts :
          result' = [op |-> "predict_proba", text |-> text, top_n |-> 0,
                     label |-> "", out |-> predict_proba(model, text)]
    /\ UNCHANGED <<trainVars, pc, model, err, diskVars, callers>>

CallPredict ==
    /\ pc = "ready"
    /\ result.op = "none"
    /\ \E text \in QueryTexts :
          result' = [op |-> "predict", text |-> text, top_n |-> 0,
                     label |-> "", out |-> predict(model, text)]
    /\ UNCHANGED <<trainVars, pc, model, err, diskVars, callers>>

CallExplain ==
    /\ pc = "ready"
    /\ result.op = "none"
    /\ \E text \in QueryTexts, top_n \in TopNs :
          result' = [op |-> "explain", text |-> text, top_n |-> top_n,
                     label |-> "", out |-> explain(model, text, top_n)]
    /\ UNCHANGED <<trainVars, pc, model, err, diskVars, callers>>

CallTopTokens ==
    /\ pc = "ready"
    /\ result.op = "none"
    /\ \E label \in Labels, top_n \in TopNs :
          result' = [op |-> "top_tokens", text |-> <<>>, top_n |-> top_n,
                     label |-> label, out |-> top_tokens(model, label, top_n)]
    /\ UNCHANGED <<trainVars, pc, model, err, diskVars, callers>>

\* the caller drops the value it received before it calls again
Discard ==
    /\ pc = "ready"
    /\ result.op # "none"
    /\ result' = [op |-> "none"]
    /\ UNCHANGED <<trainVars, pc, model, err, diskVars, callers>>

Next ==
    \/ TrainStep \/ TrainRaise \/ TrainReturn \/ TrainAgain
    \/ CallPredictProba \/ CallPredict \/ CallExplain \/ CallTopTokens \/ Discard


Spec == TrainInit /\ [][Next]_vars

-----------------------------------------------------------------------------
(* model.py: persistence.  A stored document is the parsed form of the     *)
(* JSON text: an object is a function over its keys, a number carries its  *)
(* JSON type.  file.written tells how much of the text reached the disk;   *)
(* file.src (history) is the model whose save wrote it.                    *)

JInt(n) == [t |-> "int", n |-> n]

\* the JSON number num/den, not an integer
JFloat(num, den) == [t |-> "float", num |-> num, den |-> den]

JStr(str) == [t |-> "str", s |-> str]

JNull == [t |-> "null"]

DigitStrings == <<"0", "1", "2", "3", "4", "5", "6", "7", "8", "9">>

\* Python's int(v) on a value json.loads produced
PyInt(v) ==
    IF v.t = "int" THEN Return(v.n)
    ELSE IF v.t = "float" THEN Return(v.num \div v.den)
    ELSE IF v.t = "str"
    THEN IF \E d \in 1..Len(DigitStrings) : DigitStrings[d] = v.s
         THEN Return((CHOOSE d \in 1..Len(DigitStrings) : DigitStrings[d] = v.s) - 1)
         ELSE Raise("ValueError: invalid literal for int() with base 10")
    ELSE Raise("TypeError: int() argument must be a string or a real number")

\* json.dumps of a dict of int counts
DumpCounts(d) == [j \in 1..Len(d) |-> [k |-> d[j].k, v |-> JInt(d[j].v)]]

\* sorted(self.vocabulary)
SortedVocabulary(vocab) == SelectSeq(SortedTokens, LAMBDA tok : tok \in vocab)

PayloadNoMetadata(m) ==
    [label_counts |-> DumpCounts(m.label_counts),
     token_counts |-> [j \in 1..Len(m.token_counts) |->
                          [k |-> m.token_counts[j].k,
                           v |-> DumpCounts(m.token_counts[j].v)]],
     total_tokens |-> DumpCounts(m.total_tokens),
     vocabulary |-> SortedVocabulary(m.vocabulary),
     config |-> m.config]

\* the payload save builds and json.dumps serializes
Payload(m) ==
    [label_counts |-> DumpCounts(m.label_counts),
     token_counts |-> [j \in 1..Len(m.token_counts) |->
                          [k |-> m.token_counts[j].k,
                           v |-> DumpCounts(m.token_counts[j].v)]],
     total_tokens |-> DumpCounts(m.total_tokens),
     vocabulary |-> SortedVocabulary(m.vocabulary),
     config |-> [use_bigrams |-> m.config.use_bigrams,
                 min_token_length |-> m.config.min_token_length,
                 redact_emails |-> m.config.redact_emails,
                 redact_urls |-> m.config.redact_urls,
                 redact_numbers |-> m.config.redact_numbers],
     metadata |-> [trained_at |-> m.trained_at,
                   dataset_size |-> JInt(m.dataset_size)]]

RECURSIVE IntDict(_)
\* {k: int(v) for k, v in d.items()}
IntDict(d) ==
    IF d = <<>> THEN Return(<<>>)
    ELSE LET h == PyInt(Head(d).v)
             rest == IntDict(Tail(d))
         IN IF ~h.ok THEN h
            ELSE IF ~rest.ok THEN rest
            ELSE Return(<<[k |-> Head(d).k, v |-> h.value]>> \o rest.value)

RECURSIVE IntDictDict(_)
\* {label: {token: int(count) ...} for label, tokens in d.items()}
IntDictDict(d) ==
    IF d = <<>> THEN Return(<<>>)
    ELSE LET h == IntDict(Head(d).v)
             rest == IntDictDict(Tail(d))
         IN IF ~h.ok THEN h
            ELSE IF ~rest.ok THEN rest
            ELSE Return(<<[k |-> Head(d).k, v |-> h.value]>> \o rest.value)

ConfigFields ==
    {"use_bigrams", "min_token_length", "redact_emails", "redact_urls",
     "redact_numbers"}

\* FeatureConfig(**fields): an absent field takes the dataclass default, no
\* field is validated
FeatureConfigFrom(fields) ==
    IF ~(DOMAIN fields \subseteq ConfigFields)
    THEN Raise("TypeError: __init__() got an unexpected keyword argument")
    ELSE Return([f \in ConfigFields |->
                    IF f \in DOMAIN fields THEN fields[f] ELSE DefaultConfig[f]])

KeyError(key) == Raise("KeyError: " \o key)

\* NaiveBayesModel.load on the stored file f, read at time now
load(f, now) ==
    IF ~f.exists THEN Raise("FileNotFoundError")
    ELSE IF f.written # "all" THEN Raise("JSONDecodeError")
    ELSE LET doc == f.doc
             has(key) == key \in DOMAIN doc
             cfg == FeatureConfigFrom(doc.config)
             metadata == IF has("metadata") THEN doc.metadata ELSE <<>>
             lc == IntDict(doc.label_counts)
             tc == IntDictDict(doc.token_counts)
             tt == IntDict(doc.total_tokens)
             ds == IF "dataset_size" \in DOMAIN metadata
                   THEN PyInt(metadata.dataset_size) ELSE Return(0)
         IN IF ~has("config") THEN KeyError("config")
            ELSE IF ~cfg.ok THEN cfg
            ELSE IF ~has("label_counts") THEN KeyError("label_counts")
            ELSE IF ~lc.ok THEN lc
            ELSE IF ~has("token_counts") THEN KeyError("token_counts")
            ELSE IF ~tc.ok THEN tc
            ELSE IF ~has("total_tokens") THEN KeyError("total_tokens")
            ELSE IF ~tt.ok THEN tt
            ELSE IF ~has("vocabulary") THEN KeyError("vocabulary")
            ELSE IF ~ds.ok THEN ds
            ELSE Return(
               [label_counts |-> lc.value,
                token_counts |-> tc.value,
                total_tokens |-> tt.value,
                vocabulary |-> { doc.vocabulary[j] : j \in 1..Len(doc.vocabulary) },
                config |-> cfg.value,
                trained_at |-> IF "trained_at" \in DOMAIN metadata
                               THEN metadata.trained_at ELSE now,
                dataset_size |-> ds.value])

\* the models of the persistence and sharing specifications: train run on
\* a few inputs
StoredInputs ==
    { [texts |-> <<>>, labels |-> <<>>, config |-> DefaultConfig],
      [texts |-> << <<"free">> >>, labels |-> <<"ham">>, config |-> DefaultConfig],
      [texts |-> << <<"win", "free">>, <<"free">>, <<"a">> >>,
       labels |-> <<"spam", "spam", "ham">>, config |-> DefaultConfig],
      [texts |-> << <<"a">>, <<"a">>, <<"win", "free">> >>,
       labels |-> <<"ham", "spam", "ham">>,
       config |-> FeatureConfig(TRUE, 1, TRUE, TRUE, FALSE)] }

StoredModels ==
    { train(inp.texts, inp.labels, inp.config, "T1").value : inp \in StoredInputs }

\* a file a save of m wrote to its end
StoredFile(m) == [exists |-> TRUE, doc |-> Payload(m), written |-> "all", src |-> m]

PersistInit ==
    /\ texts = <<>>
    /\ labels = <<>>
    /\ config = DefaultConfig
    /\ i = 0
    /\ label_counts = <<>>
    /\ token_counts = <<>>
    /\ total_tokens = <<>>
    /\ vocabulary = {}
    /\ pc = "idle"
    /\ model \in StoredModels
    /\ err = ""
    /\ result = [op |-> "none"]
    /\ \/ file = NoFile /\ saved = {}
       \/ \E m \in StoredModels : file = StoredFile(m) /\ saved = {Payload(m)}
    /\ payload = NoDoc
    /\ callers = <<>>

\* save: json.dumps(payload), then write_text opens the path for writing,
\* which truncates what was stored there
SaveOpen ==
    /\ pc = "idle"
    /\ payload' = Payload(model)
    /\ file' = [exists |-> TRUE, doc |-> Payload(model), written |-> "none",
                src |-> NoModel]
    /\ pc' = "opened"
    /\ err' = ""
    /\ UNCHANGED <<trainVars, model, result, saved, callers>>

\* write_text: a first part of the text reaches the file
SaveWrite ==
    /\ pc = "opened"
    /\ file' = [file EXCEPT !.written = "part"]
    /\ pc' = "partial"
    /\ UNCHANGED <<trainVars, model, err, result, payload, saved, callers>>

\* write_text: the rest is written, the file is closed and save returns
SaveClose ==
    /\ pc = "partial"
    /\ file' = [file EXCEPT !.written = "all", !.src = model]
    /\ saved' = saved \cup {payload}
    /\ payload' = NoDoc
    /\ pc' = "idle"
    /\ UNCHANGED <<trainVars, model, err, result, callers>>

\* the write fails or is interrupted (disk full, signal): save raises and
\* the file stays as the write left it
SaveFail ==
    /\ pc \in {"opened", "partial"}
    /\ err' = "OSError"
    /\ payload' = NoDoc
    /\ pc' = "idle"
    /\ UNCHANGED <<trainVars, model, result, file, saved, callers>>

\* the program goes on with another trained model
Retrain ==
    /\ pc = "idle"
    /\ result.op = "none"
    /\ model' \in StoredModels \ {model}
    /\ UNCHANGED <<trainVars, pc, err, result, diskVars, callers>>

Load ==
    /\ pc = "idle"
    /\ result.op = "none"
    /\ \E now \in Timestamps :
          result' = [op |-> "load", from |-> file, out |-> load(file, now)]
    /\ UNCHANGED <<trainVars, pc, model, err, diskVars, callers>>

DiscardLoaded ==
    /\ pc = "idle"
    /\ result.op # "none"
    /\ result' = [op |-> "none"]
    /\ UNCHANGED <<trainVars, pc, model, err, diskVars, callers>>

PersistNext ==
    \/ SaveOpen \/ SaveWrite \/ SaveClose \/ SaveFail
    \/ Retrain \/ Load \/ DiscardLoaded

SpecPersist == PersistInit /\ [][PersistNext]_vars

-----------------------------------------------------------------------------
(* monitoring.py *)

RECURSIVE SumBuckets(_)
\* counter.update(token_bucket) for every bucket of model.token_counts
SumBuckets(tc) ==
    IF tc = <<>> THEN <<>>
    ELSE AddFeatures(SumBuckets(SubSeq(tc, 1, Len(tc) - 1)), tc[Len(tc)].v)

RECURSIVE SumFeatures(_)
\* counter.update(features) for every entry of featurize(texts, config)
SumFeatures(fs) ==
    IF fs = <<>> THEN <<>>
    ELSE AddFeatures(SumFeatures(SubSeq(fs, 1, Len(fs) - 1)), fs[Len(fs)])

\* _normalize: {} when the total is 0, else count / total per token
NormalizeCounter(counter) ==
    IF SumValues(counter) = 0 THEN <<>>
    ELSE [j \in 1..Len(counter) |->
            [k |-> counter[j].k, v |-> <<counter[j].v, SumValues(counter)>>]]

model_token_distribution(m) == NormalizeCounter(SumBuckets(m.token_counts))

token_distribution(ts, cfg) == NormalizeCounter(SumFeatures(featurize(ts, cfg)))

\* set(model_dist) | set(data_dist)
AllTokens(model_dist, data_dist) == Keys(model_dist) \cup Keys(data_dist)

RECURSIVE IterationOrders(_)
\* the orders in which `for token in all_tokens` can visit a set of strings:
\* the order of a set follows the hashes of its members, which differ from
\* one interpreter process to the next
IterationOrders(S) ==
    IF S = {} THEN { <<>> }
    ELSE UNION { { <<x>> \o rest : rest \in IterationOrders(S \ {x}) } : x \in S }

\* 0.0, the default of model_dist.get and data_dist.get
RatZero == <<0, 1>>

\* a - b in lowest terms; the numerator carries the sign
RatSub(a, b) ==
    LET n == a[1] * b[2] - b[1] * a[2]
        d == a[2] * b[2]
        g == GCD(IF n < 0 THEN -n ELSE n, d)
    IN <<n \div g, d \div g>>

\* abs(x)
RatAbs(a) == <<IF a[1] < 0 THEN -a[1] ELSE a[1], a[2]>>

\* the entry shifts.append adds for one token
Shift(model_dist, data_dist, token) ==
    LET model_prob == Get(model_dist, token, RatZero)
        data_prob == Get(data_dist, token, RatZero)
    IN [token |-> token, model_prob |-> model_prob, data_prob |-> data_prob,
        delta |-> RatSub(data_prob, model_prob)]

\* shifts sorted by the signed delta
RankShiftsSigned(shifts) ==
    LET keyed == [j \in 1..Len(shifts) |->
                    [k |-> shifts[j],
                     v |-> RatSub(shifts[j].delta, <<-1, 1>>)]]
        ranked == SortedDesc(keyed)
    IN [j \in 1..Len(ranked) |-> ranked[j].k]

\* shifts.sort(key=lambda item: abs(item["delta"]), reverse=True)
RankShifts(shifts) ==
    LET keyed == [j \in 1..Len(shifts) |->
                    [k |-> shifts[j], v |-> RatAbs(shifts[j].delta)]]
        ranked == SortedDesc(keyed)
    IN [j \in 1..Len(ranked) |-> ranked[j].k]

\* drift_report, with order the order in which the loop visits all_tokens.
\* js_divergence, a sum of floating-point base-2 logarithms of the two
\* distributions, has no exact counterpart here: the report carries the
\* distributions it is computed from in its place.
drift_report(m, ts, top_n, order) ==
    LET model_dist == model_token_distribution(m)
        data_dist == token_distribution(ts, m.config)
        shifts == [j \in 1..Len(order) |-> Shift(model_dist, data_dist, order[j])]
    IN Return([model_dist |-> model_dist,
               data_dist |-> data_dist,
               top_shifted_tokens |-> Take(RankShifts(shifts), top_n),
               data_size |-> Len(ts)])

\* the orders the loop of drift_report can take for model m and sample ts
DriftOrders(m, ts) ==
    IterationOrders(AllTokens(model_token_distribution(m),
                              token_distribution(ts, m.config)))

-----------------------------------------------------------------------------
(* monitoring.py: drift reports on a trained model *)

MaxSample == 2

DriftTexts == { <<"free">>, <<"meet">>, <<"win", "free">> }

DriftInit ==
    /\ texts = <<>>
    /\ labels = <<>>
    /\ config = DefaultConfig
    /\ i = 0
    /\ label_counts = <<>>
    /\ token_counts = <<>>
    /\ total_tokens = <<>>
    /\ vocabulary = {}
    /\ pc = "monitoring"
    /\ model \in StoredModels
    /\ err = ""
    /\ result = [op |-> "none"]
    /\ file = NoFile
    /\ payload = NoDoc
    /\ saved = {}
    /\ callers = <<>>

CallDriftReport ==
    /\ pc = "monitoring"
    /\ result.op = "none"
    /\ \E sample \in SeqsUpTo(DriftTexts, MaxSample), top_n \in TopNs :
          \E order \in DriftOrders(model, sample) :
             result' = [op |-> "drift_report", sample |-> sample, top_n |-> top_n,
                        order |-> order,
                        out |-> drift_report(model, sample, top_n, order)]
    /\ UNCHANGED <<trainVars, pc, model, err, diskVars, callers>>

\* the caller drops the report before it asks for another
DiscardReport ==
    /\ pc = "monitoring"
    /\ result.op # "none"
    /\ result' = [op |-> "none"]
    /\ UNCHANGED <<trainVars, pc, model, err, diskVars, callers>>

DriftNext == CallDriftReport \/ DiscardReport

SpecDrift == DriftInit /\ [][DriftNext]_vars

-----------------------------------------------------------------------------
(* model.py: train on the same (text, label) pairs in another order *)

\* seq in the order perm gives: the j-th element is seq[perm[j]]
Reordered(seq, perm) == [j \in 1..Len(seq) |-> seq[perm[j]]]

PermuteTexts == { <<"a">>, <<"free", "free">>, <<"win", "free">> }

PermuteConfigs == { DefaultConfig, FeatureConfig(TRUE, 1, TRUE, TRUE, FALSE) }

PermuteQueries == { <<>>, <<"meet", "free">>, <<"free", "free">> }

PermuteInit ==
    /\ \E n \in 0..MaxDocs :
          /\ texts \in [1..n -> PermuteTexts]
          /\ labels \in [1..n -> Labels]
    /\ config \in PermuteConfigs
    /\ pc = "untrained"
    /\ i = 0
    /\ label_counts = <<>>
    /\ token_counts = <<>>
    /\ total_tokens = <<>>
    /\ vocabulary = {}
    /\ model = NoModel
    /\ err = ""
    /\ result = [op |-> "none"]
    /\ file = NoFile
    /\ payload = NoDoc
    /\ saved = {}
    /\ callers = <<>>

\* train(texts, labels, config)
TrainFirst ==
    /\ pc = "untrained"
    /\ model' = train(texts, labels, config, "T1").value
    /\ pc' = "trained"
    /\ UNCHANGED <<trainVars, err, result, diskVars, callers>>

\* train on the pairs taken in the order perm, under the same config
TrainPermuted ==
    /\ pc = "trained"
    /\ result.op = "none"
    /\ \E perm \in IterationOrders(1..Len(texts)) :
          result' = [op |-> "train", perm |-> perm,
                     out |-> train(Reordered(texts, perm), Reordered(labels, perm),
                                   config, "T2")]
    /\ UNCHANGED <<trainVars, pc, model, err, diskVars, callers>>

\* the caller drops the second model
ForgetPermuted ==
    /\ pc = "trained"
    /\ result.op # "none"
    /\ result' = [op |-> "none"]
    /\ UNCHANGED <<trainVars, pc, model, err, diskVars, callers>>

PermuteNext == TrainFirst \/ TrainPermuted \/ ForgetPermuted

SpecPermute == PermuteInit /\ [][PermuteNext]_vars

-----------------------------------------------------------------------------
(* api.py: several callers on the one model create_app loaded.  Each call  *)
(* runs in steps of its own (one label of the loop of predict_proba and    *)
(* explain per step), interleaved with the steps of the other calls.       *)

Callers == {"c1", "c2"}

SharedTexts == { <<"free">>, <<"meet", "free">> }

SharedSamples == { <<>>, << <<"win", "free">>, <<"meet">> >> }

Idle == [pc |-> "idle"]

\* what the call of a caller returns when it runs alone on model m
Alone(m, call) ==
    IF call.op = "predict_proba" THEN predict_proba(m, call.text)
    ELSE IF call.op = "predict" THEN predict(m, call.text)
    ELSE IF call.op = "explain" THEN explain(m, call.text, call.top_n)
    ELSE IF call.op = "top_tokens" THEN top_tokens(m, call.label, call.top_n)
    ELSE drift_report(m, call.sample, call.top_n, call.order)

SharedInit ==
    /\ texts = <<>>
    /\ labels = <<>>
    /\ config = DefaultConfig
    /\ i = 0
    /\ label_counts = <<>>
    /\ token_counts = <<>>
    /\ total_tokens = <<>>
    /\ vocabulary = {}
    /\ pc = "serving"
    /\ \E m \in StoredModels :
          /\ file = StoredFile(m)
          /\ saved = {Payload(m)}
          /\ model = load(StoredFile(m), "T1").value
    /\ err = ""
    /\ result = [op |-> "none"]
    /\ payload = NoDoc
    /\ callers = [c \in Callers |-> Idle]

\* the calls the callers make: predict_proba(text), predict(text),
\* explain(text) with its default top_n, top_tokens(label) and
\* drift_report(sample) with theirs
Calls ==
    { [op |-> op, text |-> text, label |-> "", sample |-> <<>>,
       top_n |-> IF op = "explain" THEN 8 ELSE 0] :
          op \in {"predict_proba", "predict", "explain"}, text \in SharedTexts }
    \cup { [op |-> "top_tokens", text |-> <<>>, label |-> label, sample |-> <<>>,
            top_n |-> 12] : label \in Labels }
    \cup { [op |-> "drift_report", text |-> <<>>, label |-> "", sample |-> sample,
            top_n |-> 10] : sample \in SharedSamples }

\* a caller enters one of the operations: the locals computed before the
\* loop; order is the order in which the sets of this call are visited
Begin(c) ==
    /\ pc = "serving"
    /\ callers[c].pc = "idle"
    /\ \E call \in Calls :
          \E order \in (IF call.op = "drift_report"
                        THEN DriftOrders(model, call.sample) ELSE { <<>> }) :
             callers' = [callers EXCEPT ![c] =
                [pc |-> IF call.op \in {"top_tokens", "drift_report"} THEN "body" ELSE "loop",
                 op |-> call.op, text |-> call.text, label |-> call.label,
                 sample |-> call.sample, top_n |-> call.top_n, order |-> order,
                 features |-> featurize(<<call.text>>, model.config)[1],
                 todo |-> ModelLabels(model),
                 scores |-> <<>>]]
    /\ UNCHANGED <<trainVars, pc, model, err, result, diskVars>>

\* the entry the loop body adds for one label: log_probs[label] in
\* predict_proba and predict, label_scores[label] in explain
LabelEntry(m, call, label) ==
    [k |-> label,
     v |-> IF call.op = "explain"
           THEN LogLikelihood(m, label, call.features)
           ELSE RatMul(Prior(m, label), LogLikelihood(m, label, call.features))]

\* token_bucket.get(token, 0) replaced by a read that inserts the default
ModelAfterDefaultingRead(m, call, label) ==
    [m EXCEPT !.token_counts =
        Put(m.token_counts, label,
            AddFeatures(Get(m.token_counts, label, <<>>),
                        [j \in 1..Len(call.features) |->
                            [k |-> call.features[j].k, v |-> 0]]))]

\* the model after the loop body has read label_counts, total_tokens and
\* token_counts of one label: the reads change nothing
ModelAfterRead(m, call, label) == m

\* one iteration of `for label in self.labels`
LoopStep(c) ==
    /\ callers[c].pc = "loop"
    /\ callers[c].todo # <<>>
    /\ LET call == callers[c]
           label == Head(call.todo)
       IN /\ callers' = [callers EXCEPT
                            ![c].todo = Tail(call.todo),
                            ![c].scores = Append(call.scores, LabelEntry(model, call, label))]
          /\ model' = ModelAfterRead(model, call, label)
    /\ UNCHANGED <<trainVars, pc, err, result, diskVars>>

\* after the loop: max, normalization, ranking; explain calls predict_proba
LoopEnd(c) ==
    /\ callers[c].pc = "loop"
    /\ callers[c].todo = <<>>
    /\ LET call == callers[c]
           out ==
             IF call.scores = <<>> THEN Raise(MaxEmptyError)
             ELSE IF call.op = "predict_proba" THEN Return(Normalize(call.scores))
             ELSE IF call.op = "predict" THEN Return(PyMax(Normalize(call.scores)))
             ELSE LET prediction == PyMax(call.scores)
                      probabilities == predict_proba(model, call.text)
                  IN IF ~probabilities.ok THEN probabilities
                     ELSE Return(
                        [prediction |-> prediction,
                         probabilities |-> probabilities.value,
                         top_tokens |->
                            Take(SortedDesc(Contribs(model, prediction, call.features)),
                                 call.top_n)])
       IN callers' = [callers EXCEPT ![c] =
             [pc |-> "done", op |-> call.op, text |-> call.text, label |-> call.label,
              sample |-> call.sample, top_n |-> call.top_n, order |-> call.order,
              out |-> out]]
    /\ UNCHANGED <<trainVars, pc, model, err, result, diskVars>>

\* top_tokens and drift_report: one pass over the model's tables
Body(c) ==
    /\ callers[c].pc = "body"
    /\ LET call == callers[c]
       IN callers' = [callers EXCEPT ![c] =
             [pc |-> "done", op |-> call.op, text |-> call.text, label |-> call.label,
              sample |-> call.sample, top_n |-> call.top_n, order |-> call.order,
              out |-> Alone(model, call)]]
    /\ UNCHANGED <<trainVars, pc, model, err, result, diskVars>>

\* the caller takes the value and is free to call again
Finish(c) ==
    /\ callers[c].pc = "done"
    /\ callers' = [callers EXCEPT ![c] = Idle]
    /\ UNCHANGED <<trainVars, pc, model, err, result, diskVars>>

SharedNext ==
    \E c \in Callers : Begin(c) \/ LoopStep(c) \/ LoopEnd(c) \/ Body(c) \/ Finish(c)

SpecShared == SharedInit /\ [][SharedNext]_vars

-----------------------------------------------------------------------------
(* Properties of training and inference, checked under Spec *)

\* position of a label in sorted label order
LabelRank(l) == CHOOSE j \in 1..Len(SortedLabels) : SortedLabels[j] = l

\* C1: on a model trained on at least one document, predict returns a label
\* whose predict_proba value no other label exceeds, and among the labels
\* that share that maximal value the one that comes first in sorted order.
C1_PredictIsFirstArgMax ==
    (pc = "ready" /\ result.op = "predict" /\ model.dataset_size >= 1) =>
        LET p == predict_proba(model, result.text)
            best == result.out.value
        IN /\ result.out.ok
           /\ p.ok
           /\ Has(p.value, best)
           /\ \A l \in Keys(p.value) :
                 /\ ~RatLess(Get(p.value, best, RatOne), Get(p.value, l, RatOne))
                 /\ RatEq(Get(p.value, l, RatOne), Get(p.value, best, RatOne))
                       => LabelRank(best) <= LabelRank(l)

\* a predict call that had to break a tie between two labels
C1_Witness ==
    /\ pc = "ready"
    /\ result.op = "predict"
    /\ result.out.ok
    /\ LET p == predict_proba(model, result.text).value
       IN /\ Len(p) = 2
          /\ RatEq(p[1].v, p[2].v)
          /\ result.out.value = "ham"

\* C2: predict_proba, predict, explain and top_tokens on a model with no
\* label fail with the explicit EmptyModel error.
C2_EmptyModelIsExplicit ==
    (pc = "ready" /\ model.label_counts = <<>>
        /\ result.op \in {"predict_proba", "predict", "explain", "top_tokens"}) =>
        /\ ~result.out.ok
        /\ result.out.error = "EmptyModel"

\* C3: the prediction explain reports is the label predict returns, and
\* the contributions it reports are those of that label.
C3_ExplainReportsPredictedLabel ==
    (pc = "ready" /\ result.op = "explain" /\ result.out.ok) =>
        LET predicted == predict(model, result.text).value
            features == featurize(<<result.text>>, model.config)[1]
        IN /\ result.out.value.prediction = predicted
           /\ result.out.value.top_tokens =
                 Take(SortedDesc(Contribs(model, predicted, features)), result.top_n)

\* C4: train on sequences of different lengths raises the length error of
\* the strict zip and returns no model, whatever prefix it has consumed.
C4_LengthMismatchFails ==
    (Len(texts) # Len(labels)) =>
        /\ model = NoModel
        /\ pc \in {"train", "failed"}
        /\ pc = "failed" =>
              /\ err = ZipError(IF Len(labels) < Len(texts) THEN "shorter" ELSE "longer")
              /\ i = (IF Len(labels) < Len(texts) THEN Len(labels) ELSE Len(texts))

\* train failed after it had consumed a common prefix of a longer label list
C4_Witness ==
    /\ pc = "failed"
    /\ Len(labels) > Len(texts)
    /\ i >= 1
    /\ label_counts # <<>>
    /\ model = NoModel

\* C9: a trained model has the same labels as keys of label_counts,
\* token_counts and total_tokens, every label count is at least 1,
\* total_tokens[label] is the sum of token_counts[label], and dataset_size is
\* the sum of label_counts.
C9_TrainedModelConsistent ==
    (pc = "ready") =>
        /\ Keys(model.label_counts) = Keys(model.token_counts)
        /\ Keys(model.label_counts) = Keys(model.total_tokens)
        /\ Len(model.label_counts) = Cardinality(Keys(model.label_counts))
        /\ \A l \in Keys(model.label_counts) :
              /\ Get(model.label_counts, l, 0) >= 1
              /\ Get(model.total_tokens, l, -1)
                    = SumValues(Get(model.token_counts, l, <<>>))
        /\ model.dataset_size = SumValues(model.label_counts)
        /\ model.dataset_size = Len(texts)

\* a model with two documents under one label and a label without any token
C9_Witness ==
    /\ pc = "ready"
    /\ \E l \in Keys(model.label_counts) : Get(model.label_counts, l, 0) = 2
    /\ \E l \in Keys(model.label_counts) : Get(model.total_tokens, l, -1) = 0
    /\ \E l \in Keys(model.label_counts) : Get(model.total_tokens, l, -1) > 2

-----------------------------------------------------------------------------
(* Loading a document that something other than save left at the path *)

RequiredKeys ==
    {"label_counts", "token_counts", "total_tokens", "vocabulary", "config"}

\* stored values that are not JSON integers
BadCounts == { JFloat(27, 10), JStr("7"), JStr("x"), JNull }

BadMinTokenLengths == { -1, 0 }

LoadInit ==
    /\ texts = <<>>
    /\ labels = <<>>
    /\ config = DefaultConfig
    /\ i = 0
    /\ label_counts = <<>>
    /\ token_counts = <<>>
    /\ total_tokens = <<>>
    /\ vocabulary = {}
    /\ pc = "idle"
    /\ model = NoModel
    /\ err = ""
    /\ result = [op |-> "none"]
    /\ \E m \in StoredModels : file = StoredFile(m) /\ saved = {Payload(m)}
    /\ payload = NoDoc
    /\ callers = <<>>

\* the stored document lacks one of its top-level keys
TamperDropKey ==
    /\ result.op = "none"
    /\ file.written = "all"
    /\ \E key \in DOMAIN file.doc :
          file' = [file EXCEPT !.doc = [x \in DOMAIN file.doc \ {key} |-> file.doc[x]],
                               !.src = NoModel]
    /\ UNCHANGED <<trainVars, pc, model, err, result, payload, saved, callers>>

\* a stored count is not an integer
TamperCount ==
    /\ result.op = "none"
    /\ file.written = "all"
    /\ \E key \in {"label_counts", "total_tokens"} \cap DOMAIN file.doc,
          bad \in BadCounts :
          /\ file.doc[key] # <<>>
          /\ file' = [file EXCEPT !.doc[key][1].v = bad, !.src = NoModel]
    /\ UNCHANGED <<trainVars, pc, model, err, result, payload, saved, callers>>

\* the stored config carries a min_token_length below 1, or none
TamperConfig ==
    /\ result.op = "none"
    /\ file.written = "all"
    /\ "config" \in DOMAIN file.doc
    /\ "min_token_length" \in DOMAIN file.doc.config
    /\ \/ \E n \in BadMinTokenLengths :
             file' = [file EXCEPT !.doc.config.min_token_length = n, !.src = NoModel]
       \/ file' = [file EXCEPT
                     !.doc.config = [f \in ConfigFields \ {"min_token_length"} |->
                                        file.doc.config[f]],
                     !.src = NoModel]
    /\ UNCHANGED <<trainVars, pc, model, err, result, payload, saved, callers>>

LoadNext ==
    \/ TamperDropKey \/ TamperCount \/ TamperConfig
    \/ Load \/ DiscardLoaded

SpecLoad == LoadInit /\ [][LoadNext]_vars

-----------------------------------------------------------------------------
(* Properties of persistence *)

\* the fields of two models compare equal (== of dict, set and dataclass)
SameModel(a, b) ==
    /\ DictEq(a.label_counts, b.label_counts)
    /\ Keys(a.token_counts) = Keys(b.token_counts)
    /\ \A l \in Keys(a.token_counts) :
          DictEq(Get(a.token_counts, l, <<>>), Get(b.token_counts, l, <<>>))
    /\ DictEq(a.total_tokens, b.total_tokens)
    /\ a.vocabulary = b.vocabulary
    /\ \A f \in ConfigFields : a.config[f] = b.config[f]
    /\ a.trained_at = b.trained_at
    /\ a.dataset_size = b.dataset_size

\* C5: load of a file a save wrote returns a model whose label_counts,
\* token_counts, total_tokens, vocabulary, config, trained_at and
\* dataset_size equal those of the saved model, and whose predictions,
\* explanations and token distribution (what drift reports compare) are the
\* saved model's.
C5_LoadOfSaveIsSameModel ==
    (result.op = "load" /\ result.from.exists /\ result.from.written = "all"
        /\ result.from.src # NoModel) =>
        /\ result.out.ok
        /\ SameModel(result.out.value, result.from.src)
        /\ \A q \in QueryTexts :
              /\ predict_proba(result.out.value, q) = predict_proba(result.from.src, q)
              /\ predict(result.out.value, q) = predict(result.from.src, q)
              /\ explain(result.out.value, q, 8) = explain(result.from.src, q, 8)
        /\ \A l \in Labels :
              top_tokens(result.out.value, l, 12) = top_tokens(result.from.src, l, 12)
        /\ model_token_distribution(result.out.value)
              = model_token_distribution(result.from.src)

\* a model with two labels was saved by this run over another file, then loaded
C5_Witness ==
    /\ result.op = "load"
    /\ result.from.exists
    /\ result.from.written = "all"
    /\ result.from.src = model
    /\ Cardinality(saved) >= 2
    /\ Len(model.label_counts) = 2
    /\ model.vocabulary # {}
    /\ result.out.ok

\* C6: whatever saves failed, the file at the path holds a complete snapshot
\* of a model whose save succeeded.
C6_FileHoldsSavedSnapshot ==
    (pc = "idle" /\ saved # {}) =>
        /\ file.exists
        /\ file.written = "all"
        /\ file.doc \in saved

\* a required key is absent, or a count is not a JSON integer
Malformed(doc) ==
    \/ ~(RequiredKeys \subseteq DOMAIN doc)
    \/ \E key \in {"label_counts", "total_tokens"} \cap DOMAIN doc :
          \E j \in 1..Len(doc[key]) : doc[key][j].v.t # "int"

\* C7: load of a document that lacks a required key or holds a count that
\* is not an integer fails and returns no model.
C7_MalformedDocumentRejected ==
    (result.op = "load" /\ result.from.written = "all" /\ Malformed(result.from.doc)) =>
        ~result.out.ok

\* C8: load returns no model whose config has a min_token_length below 1.
C8_InvalidConfigRejected ==
    (result.op = "load" /\ result.out.ok) =>
        result.out.value.config.min_token_length >= 1

-----------------------------------------------------------------------------
(* Properties of the shared model *)

\* C10: the inference and drift operations leave every field of the shared
\* model as load returned it, and every call that completes among
\* interleaved calls returns what the same call returns when run alone.
C10_SharedModelUnchanged ==
    (pc = "serving") =>
        /\ model = load(file, "T1").value
        /\ \A c \in Callers :
              callers[c].pc = "done" =>
                 callers[c].out = Alone(load(file, "T1").value, callers[c])

\* an explain call completed while a predict_proba call on another text was
\* inside its loop, on a model with two labels
C10_Witness ==
    /\ pc = "serving"
    /\ Len(model.label_counts) = 2
    /\ callers["c1"].pc = "done"
    /\ callers["c1"].op = "explain"
    /\ callers["c1"].out.ok
    /\ callers["c2"].pc = "loop"
    /\ callers["c2"].op = "predict_proba"
    /\ Len(callers["c2"].scores) = 1
    /\ callers["c2"].text # callers["c1"].text

-----------------------------------------------------------------------------
(* Properties of the probability distribution, checked under Spec *)

RECURSIVE NumeratorsOver(_, _)
\* the sum of the values of d, each written over the denominator den
NumeratorsOver(d, den) ==
    IF d = <<>> THEN 0
    ELSE Head(d).v[1] * (den \div Head(d).v[2]) + NumeratorsOver(Tail(d), den)

\* the values of d sum to exactly 1
SumsToOne(d) == NumeratorsOver(d, DenLCM(d)) = DenLCM(d)

\* C11: on a model with at least one label, predict_proba returns one value
\* per label of the model and no other key, every value lies in [0, 1], and
\* the values sum to 1; also for a text without tokens and for tokens the
\* training never saw.
C11_ProbabilitiesNormalized ==
    (pc = "ready" /\ result.op = "predict_proba" /\ model.label_counts # <<>>) =>
        /\ result.out.ok
        /\ LET p == result.out.value
           IN /\ Keys(p) = Keys(model.label_counts)
              /\ Len(p) = Cardinality(Keys(p))
              /\ \A j \in 1..Len(p) :
                    /\ p[j].v[2] > 0
                    /\ 0 <= p[j].v[1]
                    /\ p[j].v[1] <= p[j].v[2]
              /\ SumsToOne(p)

\* predict_proba on a two-label model for a text with a token the training
\* never saw, neither label taking the whole mass
C11_Witness ==
    /\ pc = "ready"
    /\ result.op = "predict_proba"
    /\ result.out.ok
    /\ Len(result.out.value) = 2
    /\ result.text = <<"meet", "free">>
    /\ "meet" \notin model.vocabulary
    /\ "free" \in model.vocabulary
    /\ \A j \in 1..2 : result.out.value[j].v[1] < result.out.value[j].v[2]

\* predict_proba on a two-label model for a text that yields no token
C11_WitnessNoTokens ==
    /\ pc = "ready"
    /\ result.op = "predict_proba"
    /\ result.out.ok
    /\ Len(result.out.value) = 2
    /\ tokenize(result.text, model.config) = <<>>
    /\ ~RatEq(result.out.value[1].v, result.out.value[2].v)

-----------------------------------------------------------------------------
(* Properties of the drift report, checked under SpecDrift *)

RECURSIVE Occurrences(_, _)
\* how many times token occurs in the sequence tokens
Occurrences(tokens, token) ==
    IF tokens = <<>> THEN 0
    ELSE (IF Head(tokens) = token THEN 1 ELSE 0) + Occurrences(Tail(tokens), token)

RECURSIVE SampleTokens(_, _)
\* the tokens of all the texts of a sample, one after the other
SampleTokens(sample, cfg) ==
    IF sample = <<>> THEN <<>>
    ELSE tokenize(Head(sample), cfg) \o SampleTokens(Tail(sample), cfg)

RECURSIVE ModelCount(_, _)
\* how many times the training counted token, over all labels
ModelCount(tc, token) ==
    IF tc = <<>> THEN 0
    ELSE Get(Head(tc).v, token, 0) + ModelCount(Tail(tc), token)

RECURSIVE ModelTotal(_)
ModelTotal(tc) ==
    IF tc = <<>> THEN 0 ELSE SumValues(Head(tc).v) + ModelTotal(Tail(tc))

\* the share of token among n counted tokens, 0 when there is none
Share(count, n) == IF n = 0 THEN RatZero ELSE <<count, n>>

\* the tokens of the model and of the sample
UnionTokens(m, sample) ==
    UNION { Keys(m.token_counts[j].v) : j \in 1..Len(m.token_counts) }
        \cup { SampleTokens(sample, m.config)[j] :
                  j \in 1..Len(SampleTokens(sample, m.config)) }

\* |data share - model share| of a token
AbsShift(m, sample, token) ==
    RatAbs(RatSub(Share(Occurrences(SampleTokens(sample, m.config), token),
                        Len(SampleTokens(sample, m.config))),
                  Share(ModelCount(m.token_counts, token), ModelTotal(m.token_counts))))

\* C13: drift_report returns data_size = number of texts given and at most
\* top_n shifted tokens, each a distinct token of the model or of the sample
\* with its two probabilities and delta = data_prob - model_prob, in
\* descending order of |delta|, no omitted token having a larger |delta| than
\* a reported one; whatever the order in which the token set is visited.
C13_DriftReportRanksShifts ==
    (pc = "monitoring" /\ result.op = "drift_report") =>
        /\ result.out.ok
        /\ result.out.value.data_size = Len(result.sample)
        /\ LET top == result.out.value.top_shifted_tokens
               all == UnionTokens(model, result.sample)
               sampled == SampleTokens(result.sample, model.config)
               reported == { top[j].token : j \in 1..Len(top) }
           IN /\ Len(top) <= result.top_n
              /\ Cardinality(reported) = Len(top)
              /\ reported \subseteq all
              /\ \A j \in 1..Len(top) :
                    /\ RatEq(top[j].data_prob,
                             Share(Occurrences(sampled, top[j].token), Len(sampled)))
                    /\ RatEq(top[j].model_prob,
                             Share(ModelCount(model.token_counts, top[j].token),
                                   ModelTotal(model.token_counts)))
                    /\ top[j].delta = RatSub(top[j].data_prob, top[j].model_prob)
              /\ \A j \in 1..(Len(top) - 1) :
                    ~RatLess(RatAbs(top[j].delta), RatAbs(top[j + 1].delta))
              /\ \A t \in all \ reported :
                    \A j \in 1..Len(top) :
                       ~RatLess(RatAbs(top[j].delta), AbsShift(model, result.sample, t))

\* a report cut to one entry out of at least three shifted tokens, among
\* them one whose probability fell and one the model never saw
C13_Witness ==
    /\ pc = "monitoring"
    /\ result.op = "drift_report"
    /\ result.top_n = 1
    /\ Len(result.sample) = 2
    /\ Len(result.out.value.top_shifted_tokens) = 1
    /\ Cardinality(UnionTokens(model, result.sample)) >= 3
    /\ result.out.value.top_shifted_tokens[1].delta[1] < 0
    /\ \E t \in UnionTokens(model, result.sample) : t \notin model.vocabulary

-----------------------------------------------------------------------------
(* Properties of explain, checked under Spec *)

\* C14: on a model with at least one label, explain returns at most top_n
\* contributions, each for a distinct token of the tokenized query and equal
\* to that token's contribution under the label explain reports, in
\* descending order, no omitted token contributing more than a reported one;
\* and a probability for every label of the model, the mapping predict_proba
\* returns for the same text.
C14_ExplainRanksContributions ==
    (pc = "ready" /\ result.op = "explain" /\ model.label_counts # <<>>) =>
        /\ result.out.ok
        /\ LET out == result.out.value
               top == out.top_tokens
               tokens == tokenize(result.text, model.config)
               distinct == { tokens[j] : j \in 1..Len(tokens) }
               reported == { top[j].k : j \in 1..Len(top) }
               contribution(t) ==
                   Contribution(model, out.prediction, t, Occurrences(tokens, t))
           IN /\ Len(top) <= result.top_n
              /\ Cardinality(reported) = Len(top)
              /\ reported \subseteq distinct
              /\ \A j \in 1..Len(top) : RatEq(top[j].v, contribution(top[j].k))
              /\ \A j \in 1..(Len(top) - 1) : ~RatLess(top[j].v, top[j + 1].v)
              /\ \A t \in distinct \ reported :
                    \A j \in 1..Len(top) : ~RatLess(top[j].v, contribution(t))
              /\ Keys(out.probabilities) = Keys(model.label_counts)
              /\ predict_proba(model, result.text).ok
              /\ out.probabilities = predict_proba(model, result.text).value

\* explain cut to one contribution out of three tokens of the query, one of
\* them never seen in training and contributing less than the reported one
C14_Witness ==
    /\ pc = "ready"
    /\ result.op = "explain"
    /\ result.top_n = 1
    /\ result.out.ok
    /\ Len(model.label_counts) = 2
    /\ Len(result.out.value.top_tokens) = 1
    /\ Len(tokenize(result.text, model.config)) = 3
    /\ "meet" \notin model.vocabulary
    /\ RatLess(Contribution(model, result.out.value.prediction, "meet", 1),
               result.out.value.top_tokens[1].v)

-----------------------------------------------------------------------------
(* Properties of tokenize, checked under SpecTokenize *)

\* C15: for one text and two configs that differ in use_bigrams only,
\* tokenize without bigrams returns the words that pass the
\* min_token_length filter, in order, and tokenize with bigrams returns that
\* sequence followed by one bigram a_b per adjacent pair (a, b) of it, in
\* pair order; fewer than two surviving words give no bigram.
C15_BigramsAppendAdjacentPairs ==
    (pc = "tokenizing" /\ Has(result.out, TRUE) /\ Has(result.out, FALSE)) =>
        LET with == Get(result.out, TRUE, <<>>)
            without == Get(result.out, FALSE, <<>>)
            n == Len(without)
        IN /\ without = SelectSeq(texts[1], LAMBDA w : Len(w) >= config.min_token_length)
           /\ Len(with) = (IF n < 2 THEN n ELSE 2 * n - 1)
           /\ \A j \in 1..n : with[j] = without[j]
           /\ \A j \in 1..(n - 1) :
                 with[n + j] = without[j] \o "_" \o without[j + 1]

\* both calls made on a text of three words of which the middle one is
\* filtered out: the bigram joins the two survivors
C15_Witness ==
    /\ pc = "tokenizing"
    /\ Len(texts[1]) = 3
    /\ Len(texts[1][2]) < config.min_token_length
    /\ Has(result.out, FALSE)
    /\ Len(Get(result.out, FALSE, <<>>)) = 2
    /\ Has(result.out, TRUE)
    /\ Len(Get(result.out, TRUE, <<>>)) = 3

-----------------------------------------------------------------------------
(* Properties of repeated training, checked under Spec *)

\* C16: a second call of train on the same texts, labels and config returns
\* a model with the same label_counts, token_counts, total_tokens and
\* vocabulary as the first; the two models differ in trained_at at most.
C16_TrainingIsDeterministic ==
    (pc = "ready" /\ result.op = "trained") =>
        /\ model.label_counts = result.out.label_counts
        /\ model.token_counts = result.out.token_counts
        /\ model.total_tokens = result.out.total_tokens
        /\ model.vocabulary = result.out.vocabulary
        /\ [model EXCEPT !.trained_at = "T1"] = [result.out EXCEPT !.trained_at = "T1"]

\* two models trained at different times on the same three documents of
\* two labels
C16_Witness ==
    /\ pc = "ready"
    /\ result.op = "trained"
    /\ model.trained_at # result.out.trained_at
    /\ Len(model.label_counts) = 2
    /\ model.dataset_size = 3
    /\ Cardinality(model.vocabulary) >= 3

-----------------------------------------------------------------------------
(* Properties of training order, checked under SpecPermute *)

\* C17: train on the same (text, label) pairs in any other order returns a
\* model with equal label_counts, token_counts, total_tokens, vocabulary and
\* dataset_size (equal as dicts and sets), and with the same predict_proba
\* distribution and the same predicted label for every query text.
C17_TrainingIgnoresOrder ==
    (pc = "trained" /\ result.op = "train") =>
        /\ result.out.ok
        /\ LET a == model
               b == result.out.value
           IN /\ DictEq(a.label_counts, b.label_counts)
              /\ Keys(a.token_counts) = Keys(b.token_counts)
              /\ \A l \in Keys(a.token_counts) :
                    DictEq(Get(a.token_counts, l, <<>>), Get(b.token_counts, l, <<>>))
              /\ DictEq(a.total_tokens, b.total_tokens)
              /\ a.vocabulary = b.vocabulary
              /\ a.dataset_size = b.dataset_size
              /\ \A q \in PermuteQueries :
                    /\ predict_proba(a, q) = predict_proba(b, q)
                    /\ predict(a, q) = predict(b, q)

\* three documents of two labels trained in another order: the dicts of the
\* two models are filled in different orders, and the labels are not
\* equally likely for some query
C17_Witness ==
    /\ pc = "trained"
    /\ result.op = "train"
    /\ result.out.ok
    /\ Len(texts) = 3
    /\ result.perm # <<1, 2, 3>>
    /\ model.label_counts # result.out.value.label_counts
    /\ model.token_counts # result.out.value.token_counts
    /\ \E q \in PermuteQueries :
          LET p == predict_proba(model, q).value
          IN Len(p) = 2 /\ ~RatEq(p[1].v, p[2].v)

====
